---- MODULE Spec2Model ----
(***************************************************************************)
(* Scalar Galois-field arithmetic of galois: the lookup-table kernels of   *)
(* meta_mixin_target.py, the GF(2) kernels of meta_gf2.py, the pure-python *)
(* routines of TargetMixin and the integer routines of integer.py.         *)
(***************************************************************************)
EXTENDS Integers, Sequences, FiniteSets, TLC

(***************************************************************************)
(* Bounds of the model.                                                    *)
(***************************************************************************)
\* exponents and integer multiples range over -(order+ExpSlack)..(order+ExpSlack)
ExpSlack == 1
\* isqrt, iroot and ilog are called with n in -1..MaxN
MaxN == 33
\* iroot is called with k in 1..MaxK
MaxK == 5
\* ilog is called with b in 1..MaxB
MaxB == 4
\* the longest coefficient sequence of a polynomial evaluation
MaxCoeffs == 3
\* the largest field polynomials are evaluated over
MaxPolyOrder == 5

\* The Python value None of a scalar module global or class attribute.
None == -1
\* The Python value None / [] of a table that has not been built.
NoTable == << >>

(***************************************************************************)
(* Field parameters (FieldParameters of the data model): characteristic,   *)
(* degree, order, primitive element and irreducible polynomial, the last   *)
(* two in their integer representation (digits base p).                    *)
(***************************************************************************)
Field(p, m, order, alpha, poly) ==
    [characteristic |-> p, degree |-> m, order |-> order,
     primitive_element |-> alpha, irreducible_poly |-> poly]

Fields ==
    { Field(2, 1, 2, 1, 3),
      Field(3, 1, 3, 2, 4),
      Field(2, 2, 4, 2, 7),
      Field(5, 1, 5, 2, 7),
      Field(7, 1, 7, 3, 10),
      Field(2, 3, 8, 2, 11),
      Field(3, 2, 9, 3, 17) }

(***************************************************************************)
(* Integer helpers.                                                        *)
(***************************************************************************)
RECURSIVE Pow(_, _)
\* Python's b**e for e >= 0
Pow(b, e) == IF e = 0 THEN 1 ELSE b * Pow(b, e - 1)

Abs(x) == IF x < 0 THEN -x ELSE x

RECURSIVE BitXor(_, _)
\* Python's a ^ b on non-negative integers
BitXor(a, b) ==
    IF a = 0 THEN b
    ELSE IF b = 0 THEN a
    ELSE (((a % 2) + (b % 2)) % 2) + 2 * BitXor(a \div 2, b \div 2)

RECURSIVE BitAnd(_, _)
\* Python's a & b on non-negative integers
BitAnd(a, b) ==
    IF a = 0 \/ b = 0 THEN 0
    ELSE ((a % 2) * (b % 2)) + 2 * BitAnd(a \div 2, b \div 2)

(***************************************************************************)
(* The arithmetic of GF(p^m) on the integer representation: the methods    *)
(* every field class implements (_add_python, _multiply_python, ...).      *)
(***************************************************************************)
\* coefficient-wise sum modulo p
PolyAdd[p \in Nat, a \in Nat, b \in Nat] ==
    IF a = 0 /\ b = 0 THEN 0
    ELSE (((a % p) + (b % p)) % p) + p * PolyAdd[p, a \div p, b \div p]

\* coefficient-wise product with the scalar c modulo p
PolyScale[p \in Nat, c \in Nat, a \in Nat] ==
    IF a = 0 THEN 0
    ELSE ((c * (a % p)) % p) + p * PolyScale[p, c, a \div p]

\* a times x, reduced by the irreducible polynomial
PolyTimesX[F \in Fields, a \in Nat] ==
    IF (a * F.characteristic) \div F.order = 0 THEN a * F.characteristic
    ELSE PolyAdd[F.characteristic,
                 a * F.characteristic,
                 PolyScale[F.characteristic,
                           (F.characteristic - ((a * F.characteristic) \div F.order))
                               % F.characteristic,
                           F.irreducible_poly]]

\* the product of a and b in GF(p^m)
PolyMultiply[F \in Fields, a \in Nat, b \in Nat] ==
    IF a = 0 \/ b = 0 THEN 0
    ELSE PolyAdd[F.characteristic,
                 PolyScale[F.characteristic, b % F.characteristic, a],
                 PolyTimesX[F, PolyMultiply[F, a, b \div F.characteristic]]]

_add_python(F, a, b) == PolyAdd[F.characteristic, a, b]

_multiply_python(F, a, b) == PolyMultiply[F, a, b]

\* defined for a # 0: the element x with a * x = 1
_multiplicative_inverse_python(F, a) ==
    CHOOSE x \in 1..(F.order - 1) : _multiply_python(F, a, x) = 1

RECURSIVE FieldPow(_, _, _)
\* alpha^i by repeated multiplication, i >= 0
FieldPow(F, a, i) ==
    IF i = 0 THEN 1 ELSE _multiply_python(F, FieldPow(F, a, i - 1), a)

(***************************************************************************)
(* Lookup tables of a field: EXP on [0, 2*(order-1)), LOG on [0, order),   *)
(* ZECH_LOG on [0, order-1).  LOG[0] and ZECH_LOG[ZECH_E] stand for -Inf   *)
(* and hold whatever value the builder left there (junk).                  *)
(***************************************************************************)
ZechE(F) == IF F.characteristic = 2 THEN 0 ELSE (F.order - 1) \div 2

BuildEXP(F) ==
    [i \in 0..(2 * (F.order - 1) - 1) |-> FieldPow(F, F.primitive_element, i % (F.order - 1))]

BuildLOG(F, junk) ==
    LET E == BuildEXP(F)
    IN  [a \in 0..(F.order - 1) |->
            IF a = 0 THEN junk
            ELSE CHOOSE e \in 0..(F.order - 2) : E[e] = a]

BuildZECH_LOG(F, junk) ==
    LET E == BuildEXP(F)
        L == BuildLOG(F, junk)
    IN  [i \in 0..(F.order - 2) |->
            IF i = ZechE(F) THEN junk
            ELSE L[_add_python(F, 1, E[i])]]

\* the values the builder may leave in the -Inf slots
JunkValues(F) == {0, F.order - 1}


(***************************************************************************)
(* State.                                                                  *)
(***************************************************************************)
VARIABLES
    cls,                \* the field class: its FieldParameters
    cls_EXP,            \* cls._EXP, cls._LOG, cls._ZECH_LOG
    cls_LOG,
    cls_ZECH_LOG,
    builds,             \* how many times cls._build_lookup_tables() has run
    CHARACTERISTIC,     \* module globals of meta_mixin_target
    ORDER,
    EXP,
    LOG,
    ZECH_LOG,
    ZECH_E,
    ADD_JIT,
    MULTIPLY_JIT,
    GF2_CHARACTERISTIC, \* module globals of meta_gf2
    GF2_ADD_JIT,
    GF2_MULTIPLY_JIT,
    pc,                 \* "idle", or the loop a routine in progress is in
    loc,                \* the local variables of the routine in progress
    cur,                \* the last completed call: operation, arguments, outcome
    prev                \* the call whose result is cur's first argument, if any

classVars == <<cls, cls_EXP, cls_LOG, cls_ZECH_LOG, builds>>
lookupGlobals == <<CHARACTERISTIC, ORDER, EXP, LOG, ZECH_LOG, ZECH_E, ADD_JIT, MULTIPLY_JIT>>
gf2Globals == <<GF2_CHARACTERISTIC, GF2_ADD_JIT, GF2_MULTIPLY_JIT>>
vars == <<cls, cls_EXP, cls_LOG, cls_ZECH_LOG, builds, CHARACTERISTIC, ORDER, EXP, LOG,
          ZECH_LOG, ZECH_E, ADD_JIT, MULTIPLY_JIT, GF2_CHARACTERISTIC, GF2_ADD_JIT,
          GF2_MULTIPLY_JIT, pc, loc, cur, prev>>

(***************************************************************************)
(* Outcomes.  A kernel returns a value; the record also keeps the table    *)
(* indices the call read and the return statement it left by.              *)
(***************************************************************************)
Ret(v, li, zi, ei, br) ==
    [ret |-> v, err |-> "none", logIdx |-> li, zechIdx |-> zi, expIdx |-> ei, branch |-> br]

\* a plain return of a routine that reads no table
Value(v) == Ret(v, {}, {}, {}, "return")

\* an exception leaving the routine
Raise(e) == [ret |-> 0, err |-> e, logIdx |-> {}, zechIdx |-> {}, expIdx |-> {}, branch |-> "raise"]

Call(op, a, b, r) ==
    [op |-> op, a |-> a, b |-> b, ret |-> r.ret, err |-> r.err, logIdx |-> r.logIdx,
     zechIdx |-> r.zechIdx, expIdx |-> r.expIdx, branch |-> r.branch]

NoCall == Call("none", 0, 0, Value(0))

NoLoc == [routine |-> "none"]

\* T[i] of a numpy table: a negative index counts from the end; an index out
\* of the table has no defined value
At(T, i) ==
    IF i \in DOMAIN T THEN T[i]
    ELSE IF i < 0 /\ (i + Cardinality(DOMAIN T)) \in DOMAIN T THEN T[i + Cardinality(DOMAIN T)]
    ELSE None

(***************************************************************************)
(* Galois field arithmetic for any field using the EXP, LOG and ZECH_LOG   *)
(* lookup tables (module globals).                                         *)
(***************************************************************************)
_add(a, b) ==
    LET m0 == At(LOG, a)
        n0 == At(LOG, b)
        m == IF m0 > n0 THEN n0 ELSE m0
        n == IF m0 > n0 THEN m0 ELSE n0
    IN  IF a = 0 THEN Ret(b, {a, b}, {}, {}, "a_zero")
        ELSE IF b = 0 THEN Ret(a, {a, b}, {}, {}, "b_zero")
        ELSE IF n - m = ZECH_E THEN Ret(0, {a, b}, {}, {}, "zech_e")
        ELSE Ret(At(EXP, m + At(ZECH_LOG, n - m)),
                 {a, b}, {n - m}, {m + At(ZECH_LOG, n - m)}, "exp")

\* _subtract without the reduction of the ZECH_LOG index by order - 1
_subtract_no_reduction(a, b) ==
    LET m0 == At(LOG, a)
        n0 == At(LOG, b) + ZECH_E
        m == IF m0 > n0 THEN n0 ELSE m0
        n == IF m0 > n0 THEN m0 ELSE n0
        z == n - m
    IN  IF b = 0 THEN Ret(a, {a, b}, {}, {}, "b_zero")
        ELSE IF a = 0 THEN Ret(At(EXP, n0), {a, b}, {}, {n0}, "a_zero")
        ELSE IF z = ZECH_E THEN Ret(0, {a, b}, {}, {}, "zech_e")
        ELSE Ret(At(EXP, m + At(ZECH_LOG, z)),
                 {a, b}, {z}, {m + At(ZECH_LOG, z)}, "exp")

_subtract(a, b) ==
    LET m0 == At(LOG, a)
        n0 == At(LOG, b) + ZECH_E
        m == IF m0 > n0 THEN n0 ELSE m0
        n == IF m0 > n0 THEN m0 ELSE n0
        z0 == n - m
        z == IF z0 >= ORDER - 1 THEN z0 - (ORDER - 1) ELSE z0
    IN  IF b = 0 THEN Ret(a, {a, b}, {}, {}, "b_zero")
        ELSE IF a = 0 THEN Ret(At(EXP, n0), {a, b}, {}, {n0}, "a_zero")
        ELSE IF z0 = ZECH_E THEN Ret(0, {a, b}, {}, {}, "zech_e")
        ELSE Ret(At(EXP, m + At(ZECH_LOG, z)),
                 {a, b}, {z}, {m + At(ZECH_LOG, z)}, "exp")

\* _multiply testing its operands for zero before it indexes LOG
_multiply_zero_test_first(a, b) ==
    IF a = 0 \/ b = 0 THEN Ret(0, {}, {}, {}, "zero")
    ELSE Ret(At(EXP, At(LOG, a) + At(LOG, b)), {a, b}, {}, {At(LOG, a) + At(LOG, b)}, "exp")

_multiply(a, b) ==
    LET m == At(LOG, a)
        n == At(LOG, b)
    IN  IF a = 0 \/ b = 0 THEN Ret(0, {a, b}, {}, {}, "zero")
        ELSE Ret(At(EXP, m + n), {a, b}, {}, {m + n}, "exp")

\* _divide without the zero test on the divisor
_divide_no_divisor_test(a, b) ==
    LET m == At(LOG, a)
        n == At(LOG, b)
    IN  IF a = 0 THEN Ret(0, {a, b}, {}, {}, "zero")
        ELSE Ret(At(EXP, (ORDER - 1) + m - n), {a, b}, {}, {(ORDER - 1) + m - n}, "exp")

_divide(a, b) ==
    LET m == At(LOG, a)
        n == At(LOG, b)
    IN  IF a = 0 \/ b = 0 THEN Ret(0, {a, b}, {}, {}, "zero")
        ELSE Ret(At(EXP, (ORDER - 1) + m - n), {a, b}, {}, {(ORDER - 1) + m - n}, "exp")

\* _additive_inverse that forgets the offset ZECH_E
_additive_inverse_no_offset(a) ==
    LET n == At(LOG, a)
    IN  IF a = 0 THEN Ret(0, {a}, {}, {}, "zero")
        ELSE Ret(At(EXP, n), {a}, {}, {n}, "exp")

_additive_inverse(a) ==
    LET n == At(LOG, a)
    IN  IF a = 0 THEN Ret(0, {a}, {}, {}, "zero")
        ELSE Ret(At(EXP, ZECH_E + n), {a}, {}, {ZECH_E + n}, "exp")

\* _multiplicative_inverse without the offset ORDER - 1 that keeps the index
\* non-negative
_multiplicative_inverse_no_offset(a) ==
    LET m == At(LOG, a)
    IN  IF a = 0 THEN Ret(0, {a}, {}, {}, "zero")
        ELSE Ret(At(EXP, -m), {a}, {}, {-m}, "exp")

_multiplicative_inverse(a) ==
    LET m == At(LOG, a)
    IN  IF a = 0 THEN Ret(0, {a}, {}, {}, "zero")
        ELSE Ret(At(EXP, (ORDER - 1) - m), {a}, {}, {(ORDER - 1) - m}, "exp")

_multiple_add(a, b_int) ==
    LET b == b_int % CHARACTERISTIC
        m == At(LOG, a)
        n == At(LOG, b)
    IN  IF a = 0 \/ b = 0 THEN Ret(0, {a, b}, {}, {}, "zero")
        ELSE Ret(At(EXP, m + n), {a, b}, {}, {m + n}, "exp")

\* _power testing the zero base before the zero exponent
_power_base_first(a, b_int) ==
    LET m == At(LOG, a)
    IN  IF a = 0 THEN Ret(0, {a}, {}, {}, "zero")
        ELSE IF b_int = 0 THEN Ret(1, {a}, {}, {}, "one")
        ELSE Ret(At(EXP, (m * b_int) % (ORDER - 1)), {a}, {}, {(m * b_int) % (ORDER - 1)}, "exp")

_power(a, b_int) ==
    LET m == At(LOG, a)
    IN  IF b_int = 0 THEN Ret(1, {a}, {}, {}, "one")
        ELSE IF a = 0 THEN Ret(0, {a}, {}, {}, "zero")
        ELSE Ret(At(EXP, (m * b_int) % (ORDER - 1)), {a}, {}, {(m * b_int) % (ORDER - 1)}, "exp")

\* _log reading the table one entry too far
_log_off_by_one(a) == Ret(At(LOG, a + 1), {a + 1}, {}, {}, "log")

_log(a) == Ret(At(LOG, a), {a}, {}, {}, "log")

(***************************************************************************)
(* GF(2) arithmetic, explicitly calculated without lookup tables.          *)
(***************************************************************************)
\* _add_jit with bitwise or in place of exclusive or
_add_jit_or(a, b) == Value(a + b - BitAnd(a, b))

_add_jit(a, b) == Value(BitXor(a, b))

_subtract_jit(a, b) == Value(BitXor(a, b))

_multiply_jit(a, b) == Value(BitAnd(a, b))

_divide_jit(a, b) == IF b = 0 THEN Value(0) ELSE Value(a)

_negative_jit(a) == Value(a)

\* MULTIPLY_JIT of meta_gf2 is the placeholder lambda x, y: x * y until the
\* class is targeted, and the compiled _multiply_jit afterwards
_multiple_add_jit(a, multiple) ==
    LET mult == multiple % GF2_CHARACTERISTIC
    IN  IF GF2_MULTIPLY_JIT = "_multiply_jit" THEN _multiply_jit(a, mult) ELSE Value(a * mult)

_power_jit(a, power) ==
    IF power = 0 THEN Value(1)
    ELSE IF a = 0 THEN Value(0)
    ELSE Value(a)

_log_jit(a) == Value(0)

(***************************************************************************)
(* Pure python arithmetic methods of TargetMixin that do not loop.         *)
(***************************************************************************)
_divide_python(F, a, b) ==
    IF a = 0 \/ b = 0 THEN Value(0)
    ELSE Value(_multiply_python(F, a, _multiplicative_inverse_python(F, b)))

_multiple_add_python(F, a, multiple) ==
    Value(_multiply_python(F, a, multiple % F.characteristic))

(***************************************************************************)
(* Polynomial evaluation by Horner's method.  coeffs is most-significant   *)
(* first; arrays are indexed from 1 here and from 0 in the code.           *)
(***************************************************************************)
\* ADD_JIT and MULTIPLY_JIT of meta_mixin_target: the placeholder lambdas
\* until the class is targeted, the compiled _add and _multiply afterwards
ADD_JIT_call(x, y) == IF ADD_JIT = "_add" THEN _add(x, y).ret ELSE x + y

MULTIPLY_JIT_call(x, y) == IF MULTIPLY_JIT = "_multiply" THEN _multiply(x, y).ret ELSE x * y

\* the inner statement with the roles of the coefficient and the result swapped
_poly_eval_term_swapped(c, r, x) == ADD_JIT_call(r, MULTIPLY_JIT_call(c, x))

\* ADD_JIT(coeffs[j], MULTIPLY_JIT(results[i], values[i]))
_poly_eval_term(c, r, x) == ADD_JIT_call(c, MULTIPLY_JIT_call(r, x))

RECURSIVE _poly_eval_j(_, _, _, _, _)
\* for j in range(1, coeffs.size), from j on
_poly_eval_j(coeffs, values, results, i, j) ==
    IF j > Len(coeffs) THEN results
    ELSE _poly_eval_j(coeffs, values,
                      [results EXCEPT ![i] = _poly_eval_term(coeffs[j], results[i], values[i])],
                      i, j + 1)

RECURSIVE _poly_eval_i(_, _, _, _)
\* for i in range(values.size), from i on
_poly_eval_i(coeffs, values, results, i) ==
    IF i > Len(values) THEN results
    ELSE _poly_eval_i(coeffs, values,
                      _poly_eval_j(coeffs, values, [results EXCEPT ![i] = coeffs[1]], i, 2),
                      i + 1)

_poly_eval(coeffs, values, results) == Value(_poly_eval_i(coeffs, values, results, 1))

\* ADD_JIT and MULTIPLY_JIT of meta_gf2
GF2_ADD_JIT_call(x, y) == IF GF2_ADD_JIT = "_add_jit" THEN _add_jit(x, y).ret ELSE x + y

GF2_MULTIPLY_JIT_call(x, y) ==
    IF GF2_MULTIPLY_JIT = "_multiply_jit" THEN _multiply_jit(x, y).ret ELSE x * y

RECURSIVE _poly_eval_jit_j(_, _, _, _, _)
_poly_eval_jit_j(coeffs, values, results, i, j) ==
    IF j > Len(coeffs) THEN results
    ELSE _poly_eval_jit_j(coeffs, values,
                          [results EXCEPT ![i] =
                              GF2_ADD_JIT_call(coeffs[j],
                                               GF2_MULTIPLY_JIT_call(results[i], values[i]))],
                          i, j + 1)

RECURSIVE _poly_eval_jit_i(_, _, _, _)
_poly_eval_jit_i(coeffs, values, results, i) ==
    IF i > Len(values) THEN results
    ELSE _poly_eval_jit_i(coeffs, values,
                          _poly_eval_jit_j(coeffs, values, [results EXCEPT ![i] = coeffs[1]],
                                           i, 2),
                          i + 1)

_poly_eval_jit(coeffs, values, results) == Value(_poly_eval_jit_i(coeffs, values, results, 1))

RECURSIVE _poly_eval_python_j(_, _, _, _, _)
\* for j in range(1, coeffs.size), from j on; values is one field element
_poly_eval_python_j(F, coeffs, values, result, j) ==
    IF j > Len(coeffs) THEN result
    ELSE _poly_eval_python_j(F, coeffs, values,
                             _add_python(F, coeffs[j], _multiply_python(F, result, values)),
                             j + 1)

_poly_eval_python(F, coeffs, values) ==
    Value(_poly_eval_python_j(F, coeffs, values, coeffs[1], 2))

(***************************************************************************)
(* Initial state: a field class has been created (TargetMixin.__init__),   *)
(* no table is built and the module globals hold their placeholders.       *)
(***************************************************************************)
Init ==
    /\ cls \in Fields
    /\ cls_EXP = NoTable
    /\ cls_LOG = NoTable
    /\ cls_ZECH_LOG = NoTable
    /\ builds = 0
    /\ CHARACTERISTIC = None
    /\ ORDER = None
    /\ EXP = NoTable
    /\ LOG = NoTable
    /\ ZECH_LOG = NoTable
    /\ ZECH_E = None
    /\ ADD_JIT = "lambda"
    /\ MULTIPLY_JIT = "lambda"
    /\ GF2_CHARACTERISTIC = None
    /\ GF2_ADD_JIT = "lambda"
    /\ GF2_MULTIPLY_JIT = "lambda"
    /\ pc = "idle"
    /\ loc = NoLoc
    /\ cur = NoCall
    /\ prev = NoCall

(***************************************************************************)
(* Targeting.                                                              *)
(***************************************************************************)
\* cls._build_lookup_tables(): the tables of the data model for cls
_build_lookup_tables(junk) ==
    <<BuildEXP(cls), BuildLOG(cls, junk), BuildZECH_LOG(cls, junk)>>

\* _target_jit_lookup building the tables on every call
_target_jit_lookup_rebuild ==
    /\ pc = "idle"
    /\ \E junk \in JunkValues(cls) :
        LET built == _build_lookup_tables(junk)
        IN  /\ cls_EXP' = built[1]
            /\ cls_LOG' = built[2]
            /\ cls_ZECH_LOG' = built[3]
            /\ EXP' = built[1]
            /\ LOG' = built[2]
            /\ ZECH_LOG' = built[3]
    /\ builds' = IF builds < 2 THEN builds + 1 ELSE builds
    /\ CHARACTERISTIC' = cls.characteristic
    /\ ORDER' = cls.order
    /\ ZECH_E' = IF cls.characteristic = 2 THEN 0 ELSE (cls.order - 1) \div 2
    /\ ADD_JIT' = "_add"
    /\ MULTIPLY_JIT' = "_multiply"
    /\ UNCHANGED <<cls, gf2Globals, pc, loc, cur, prev>>

_target_jit_lookup ==
    /\ pc = "idle"
    /\ \E junk \in JunkValues(cls) :
        LET built == IF cls_EXP = NoTable
                     THEN _build_lookup_tables(junk)
                     ELSE <<cls_EXP, cls_LOG, cls_ZECH_LOG>>
        IN  /\ cls_EXP' = built[1]
            /\ cls_LOG' = built[2]
            /\ cls_ZECH_LOG' = built[3]
            /\ EXP' = built[1]
            /\ LOG' = built[2]
            /\ ZECH_LOG' = built[3]
    /\ builds' = IF cls_EXP = NoTable THEN builds + 1 ELSE builds
    /\ CHARACTERISTIC' = cls.characteristic
    /\ ORDER' = cls.order
    /\ ZECH_E' = IF cls.characteristic = 2 THEN 0 ELSE (cls.order - 1) \div 2
    /\ ADD_JIT' = "_add"
    /\ MULTIPLY_JIT' = "_multiply"
    /\ UNCHANGED <<cls, gf2Globals, pc, loc, cur, prev>>

\* GF2Meta._target_jit_calculate: cls is the GF(2) class
_target_jit_calculate ==
    /\ pc = "idle"
    /\ cls.order = 2
    /\ GF2_CHARACTERISTIC' = cls.characteristic
    /\ GF2_ADD_JIT' = "_add_jit"
    /\ GF2_MULTIPLY_JIT' = "_multiply_jit"
    /\ UNCHANGED <<classVars, lookupGlobals, pc, loc, cur, prev>>

(***************************************************************************)
(* Calls of the kernels.  The first argument is any field element, or the  *)
(* result of the call before (chained).                                    *)
(***************************************************************************)
Elements == 0..(cls.order - 1)

Integers_ == -(cls.order + ExpSlack)..(cls.order + ExpSlack)

LookupOps == {"_add", "_subtract", "_multiply", "_divide", "_additive_inverse",
              "_multiplicative_inverse", "_multiple_add", "_power", "_log"}

GF2Ops == {"_add_jit", "_subtract_jit", "_multiply_jit", "_divide_jit", "_negative_jit",
           "_multiple_add_jit", "_power_jit", "_log_jit"}

\* the ufuncs of the lookup kernels exist once _target_jit_lookup has run
LookupReady == pc = "idle" /\ ORDER # None

\* the ufuncs of the GF(2) kernels exist once _target_jit_calculate has run
GF2Ready == pc = "idle" /\ GF2_CHARACTERISTIC # None

\* The operations of the field axioms: the caller composes two of them.
ChainOps == {"_add", "_subtract", "_multiply", "_divide", "_additive_inverse",
             "_multiplicative_inverse", "_add_jit", "_subtract_jit", "_multiply_jit",
             "_divide_jit", "_negative_jit"}

\* The caller passes any field elements to a first call ("fresh"), and may pass
\* the result of that call as the first or the second argument of a second
\* call; it then drops the results (Discard).
Passing == {"fresh", "first", "second"}

CanChain == cur.op \in ChainOps /\ prev.op = "none"

FirstArgs(how) ==
    IF how = "fresh" THEN (IF cur.op = "none" THEN Elements ELSE {})
    ELSE IF ~CanChain THEN {}
    ELSE IF how = "first" THEN {cur.ret} \cap Elements
    ELSE Elements

SecondArgs(how) ==
    IF how # "second" THEN Elements
    ELSE IF ~CanChain THEN {}
    ELSE {cur.ret} \cap Elements

Completed(op, a, b, r, how) ==
    /\ cur' = Call(op, a, b, r)
    /\ prev' = IF how = "fresh" THEN NoCall ELSE cur
    /\ UNCHANGED <<classVars, lookupGlobals, gf2Globals, pc, loc>>

Discard ==
    /\ pc = "idle"
    /\ cur.op # "none"
    /\ cur' = NoCall
    /\ prev' = NoCall
    /\ UNCHANGED <<classVars, lookupGlobals, gf2Globals, pc, loc>>

Do_add ==
    /\ LookupReady
    /\ \E how \in Passing : \E a \in FirstArgs(how), b \in SecondArgs(how) :
        Completed("_add", a, b, _add(a, b), how)

Do_subtract ==
    /\ LookupReady
    /\ \E how \in Passing : \E a \in FirstArgs(how), b \in SecondArgs(how) :
        Completed("_subtract", a, b, _subtract(a, b), how)

Do_multiply ==
    /\ LookupReady
    /\ \E how \in Passing : \E a \in FirstArgs(how), b \in SecondArgs(how) :
        Completed("_multiply", a, b, _multiply(a, b), how)

Do_divide ==
    /\ LookupReady
    /\ \E how \in Passing : \E a \in FirstArgs(how), b \in SecondArgs(how) :
        Completed("_divide", a, b, _divide(a, b), how)

Do_additive_inverse ==
    /\ LookupReady
    /\ \E how \in {"fresh", "first"} : \E a \in FirstArgs(how) :
        Completed("_additive_inverse", a, 0, _additive_inverse(a), how)

Do_multiplicative_inverse ==
    /\ LookupReady
    /\ \E how \in {"fresh", "first"} : \E a \in FirstArgs(how) :
        Completed("_multiplicative_inverse", a, 0, _multiplicative_inverse(a), how)

Do_multiple_add ==
    /\ LookupReady
    /\ \E a \in FirstArgs("fresh"), b_int \in Integers_ :
        Completed("_multiple_add", a, b_int, _multiple_add(a, b_int), "fresh")

Do_power ==
    /\ LookupReady
    /\ \E a \in FirstArgs("fresh"), b_int \in Integers_ :
        Completed("_power", a, b_int, _power(a, b_int), "fresh")

Do_log ==
    /\ LookupReady
    /\ \E a \in FirstArgs("fresh") :
        Completed("_log", a, 0, _log(a), "fresh")

Do_add_jit ==
    /\ GF2Ready
    /\ \E how \in Passing : \E a \in FirstArgs(how), b \in SecondArgs(how) :
        Completed("_add_jit", a, b, _add_jit(a, b), how)

Do_subtract_jit ==
    /\ GF2Ready
    /\ \E how \in Passing : \E a \in FirstArgs(how), b \in SecondArgs(how) :
        Completed("_subtract_jit", a, b, _subtract_jit(a, b), how)

Do_multiply_jit ==
    /\ GF2Ready
    /\ \E how \in Passing : \E a \in FirstArgs(how), b \in SecondArgs(how) :
        Completed("_multiply_jit", a, b, _multiply_jit(a, b), how)

Do_divide_jit ==
    /\ GF2Ready
    /\ \E how \in Passing : \E a \in FirstArgs(how), b \in SecondArgs(how) :
        Completed("_divide_jit", a, b, _divide_jit(a, b), how)

Do_negative_jit ==
    /\ GF2Ready
    /\ \E how \in {"fresh", "first"} : \E a \in FirstArgs(how) :
        Completed("_negative_jit", a, 0, _negative_jit(a), how)

Do_multiple_add_jit ==
    /\ GF2Ready
    /\ \E a \in FirstArgs("fresh"), multiple \in Integers_ :
        Completed("_multiple_add_jit", a, multiple, _multiple_add_jit(a, multiple), "fresh")

Do_power_jit ==
    /\ GF2Ready
    /\ \E a \in FirstArgs("fresh"), power \in Integers_ :
        Completed("_power_jit", a, power, _power_jit(a, power), "fresh")

Do_log_jit ==
    /\ GF2Ready
    /\ \E a \in FirstArgs("fresh") :
        Completed("_log_jit", a, 0, _log_jit(a), "fresh")

Do_divide_python ==
    /\ pc = "idle"
    /\ cur.op = "none"
    /\ \E a \in Elements, b \in Elements :
        Completed("_divide_python", a, b, _divide_python(cls, a, b), "fresh")

Do_multiple_add_python ==
    /\ pc = "idle"
    /\ cur.op = "none"
    /\ \E a \in Elements, multiple \in Integers_ :
        Completed("_multiple_add_python", a, multiple,
                  _multiple_add_python(cls, a, multiple), "fresh")

\* the inputs of a polynomial evaluation: a non-empty coefficient array, an
\* array of field elements, and the output array as allocated (not yet written)
PolyReady == cur.op = "none" /\ cls.order <= MaxPolyOrder

ArraysOf(S, sizes) == UNION {[1..n -> S] : n \in sizes}

Coefficients == ArraysOf(Elements, 1..MaxCoeffs)

ValueSizes == {1, 2}

Allocated(n) == {[i \in 1..n |-> v] : v \in {0, cls.order - 1}}

Do_poly_eval ==
    /\ LookupReady
    /\ PolyReady
    /\ \E coeffs \in Coefficients, values \in ArraysOf(Elements, ValueSizes) :
        \E results \in Allocated(Len(values)) :
            Completed("_poly_eval", coeffs, values, _poly_eval(coeffs, values, results), "fresh")

Do_poly_eval_jit ==
    /\ GF2Ready
    /\ PolyReady
    /\ \E coeffs \in Coefficients, values \in ArraysOf(Elements, ValueSizes) :
        \E results \in Allocated(Len(values)) :
            Completed("_poly_eval_jit", coeffs, values,
                      _poly_eval_jit(coeffs, values, results), "fresh")

Do_poly_eval_python ==
    /\ pc = "idle"
    /\ PolyReady
    /\ \E coeffs \in Coefficients, values \in Elements :
        Completed("_poly_eval_python", coeffs, values,
                  _poly_eval_python(cls, coeffs, values), "fresh")

(***************************************************************************)
(* Routines with loops run one statement group per step.                   *)
(***************************************************************************)
FreshCall == pc = "idle" /\ cur.op = "none"

\* the routine in progress returns or raises
Finish(op, a, b, r) ==
    /\ pc' = "idle"
    /\ loc' = NoLoc
    /\ cur' = Call(op, a, b, r)
    /\ prev' = NoCall
    /\ UNCHANGED <<classVars, lookupGlobals, gf2Globals>>

\* the routine in progress goes on at label l with locals f
Goto(l, f) ==
    /\ pc' = l
    /\ loc' = f
    /\ UNCHANGED <<classVars, lookupGlobals, gf2Globals, cur, prev>>

(***************************************************************************)
(* TargetMixin._power_python: square and multiply.                         *)
(***************************************************************************)
_power_python_enter ==
    /\ FreshCall
    /\ \E a \in Elements, power \in Integers_ :
        IF power = 0 THEN Finish("_power_python", a, power, Value(1))
        ELSE IF power < 0 /\ a = 0
             THEN Finish("_power_python", a, power, Raise("ZeroDivisionError"))
        ELSE Goto("power_loop",
                  [routine |-> "_power_python", a |-> a, b |-> power,
                   result_s |-> IF power < 0 THEN _multiplicative_inverse_python(cls, a) ELSE a,
                   result_m |-> 1,
                   power |-> Abs(power)])

\* the loop with an odd step that overwrites result_m instead of multiplying it
_power_python_loop_overwrite ==
    /\ pc = "power_loop"
    /\ loc.power > 1
    /\ IF loc.power % 2 = 0
       THEN Goto("power_loop",
                 [loc EXCEPT !.result_s = _multiply_python(cls, loc.result_s, loc.result_s),
                             !.power = loc.power \div 2])
       ELSE Goto("power_loop",
                 [loc EXCEPT !.result_m = loc.result_s,
                             !.power = loc.power - 1])

_power_python_loop ==
    /\ pc = "power_loop"
    /\ loc.power > 1
    /\ IF loc.power % 2 = 0
       THEN Goto("power_loop",
                 [loc EXCEPT !.result_s = _multiply_python(cls, loc.result_s, loc.result_s),
                             !.power = loc.power \div 2])
       ELSE Goto("power_loop",
                 [loc EXCEPT !.result_m = _multiply_python(cls, loc.result_m, loc.result_s),
                             !.power = loc.power - 1])

_power_python_return ==
    /\ pc = "power_loop"
    /\ ~(loc.power > 1)
    /\ Finish("_power_python", loc.a, loc.b,
              Value(_multiply_python(cls, loc.result_m, loc.result_s)))

(***************************************************************************)
(* TargetMixin._log_python: the naive search.                              *)
(***************************************************************************)
_log_python_enter ==
    /\ FreshCall
    /\ \E beta \in Elements :
        Goto("log_loop", [routine |-> "_log_python", beta |-> beta, result |-> 1, i |-> 0])

\* one iteration of `for i in range(0, cls.order - 1)`; the routine returns
\* the loop variable at the break or after the last iteration
_log_python_loop ==
    /\ pc = "log_loop"
    /\ IF loc.result = loc.beta
       THEN Finish("_log_python", loc.beta, 0, Value(loc.i))
       ELSE IF loc.i + 1 < cls.order - 1
            THEN Goto("log_loop",
                      [loc EXCEPT !.result = _multiply_python(cls, loc.result, cls.primitive_element),
                                  !.i = loc.i + 1])
            ELSE Finish("_log_python", loc.beta, 0, Value(loc.i))

(***************************************************************************)
(* integer.py                                                              *)
(***************************************************************************)
\* the arguments n of the integer routines
IntegerArgs == -1..MaxN

\* the arguments of isqrt that the documentation works out
IsqrtExamples == {728, 729, 730}

\* math.isqrt of the standard library (Python 3.8 and later)
math_isqrt(n) ==
    IF n < 0 THEN Raise("ValueError")
    ELSE Ret(CHOOSE x \in 0..n : x * x <= n /\ (x + 1) * (x + 1) > n, {}, {}, {}, "math.isqrt")

\* isqrt(n) is entered; py38 tells whether the interpreter is Python 3.8 or later
isqrt_enter ==
    /\ FreshCall
    /\ \E n \in IntegerArgs \cup IsqrtExamples, py38 \in BOOLEAN :
        IF py38 THEN Finish("isqrt", n, 0, math_isqrt(n))
        ELSE IF ~(n >= 0) THEN Finish("isqrt", n, 0, Raise("ValueError"))
        ELSE Goto("isqrt_call", [routine |-> "isqrt", n |-> n, stack |-> <<n>>, s |-> 0])

\* the body of isqrt up to its recursive call, for the argument on top of the stack
isqrt_call ==
    /\ pc = "isqrt_call"
    /\ LET n == loc.stack[Len(loc.stack)]
       IN  IF n < 2
           THEN Goto("isqrt_return",
                     [loc EXCEPT !.stack = SubSeq(loc.stack, 1, Len(loc.stack) - 1), !.s = n])
           ELSE Goto("isqrt_call", [loc EXCEPT !.stack = Append(loc.stack, n \div 4)])

\* isqrt comparing the large candidate with >= in place of >
isqrt_return_ge ==
    /\ pc = "isqrt_return"
    /\ IF loc.stack = << >>
       THEN Finish("isqrt", loc.n, 0, Value(loc.s))
       ELSE LET n == loc.stack[Len(loc.stack)]
                small_candidate == loc.s * 2
                large_candidate == small_candidate + 1
            IN  Goto("isqrt_return",
                     [loc EXCEPT !.stack = SubSeq(loc.stack, 1, Len(loc.stack) - 1),
                                 !.s = IF large_candidate * large_candidate >= n
                                       THEN small_candidate
                                       ELSE large_candidate])

\* the recursive call returned s to the activation on top of the stack
isqrt_return ==
    /\ pc = "isqrt_return"
    /\ IF loc.stack = << >>
       THEN Finish("isqrt", loc.n, 0, Value(loc.s))
       ELSE LET n == loc.stack[Len(loc.stack)]
                small_candidate == loc.s * 2
                large_candidate == small_candidate + 1
            IN  Goto("isqrt_return",
                     [loc EXCEPT !.stack = SubSeq(loc.stack, 1, Len(loc.stack) - 1),
                                 !.s = IF large_candidate * large_candidate > n
                                       THEN small_candidate
                                       ELSE large_candidate])

iroot_enter ==
    /\ FreshCall
    /\ \E n \in IntegerArgs, k \in 1..MaxK :
        IF ~(n > 0) \/ ~(k >= 2) THEN Finish("iroot", n, k, Raise("ValueError"))
        ELSE Goto("iroot_loop",
                  [routine |-> "iroot", n |-> n, k |-> k, u |-> n, x |-> n + 1, k1 |-> k - 1])

\* the Newton step dividing n by u**k in place of u**(k-1)
iroot_loop_wrong_power ==
    /\ pc = "iroot_loop"
    /\ IF loc.u < loc.x
       THEN Goto("iroot_loop",
                 [loc EXCEPT !.x = loc.u,
                             !.u = (loc.k1 * loc.u + loc.n \div Pow(loc.u, loc.k)) \div loc.k])
       ELSE Finish("iroot", loc.n, loc.k, Value(loc.x))

iroot_loop ==
    /\ pc = "iroot_loop"
    /\ IF loc.u < loc.x
       THEN IF Pow(loc.u, loc.k1) = 0
            THEN Finish("iroot", loc.n, loc.k, Raise("ZeroDivisionError"))
            ELSE Goto("iroot_loop",
                      [loc EXCEPT !.x = loc.u,
                                  !.u = (loc.k1 * loc.u + loc.n \div Pow(loc.u, loc.k1)) \div loc.k])
       ELSE Finish("iroot", loc.n, loc.k, Value(loc.x))

ilog_enter ==
    /\ FreshCall
    /\ \E n \in IntegerArgs, b \in 1..MaxB :
        IF ~(n > 0) \/ ~(b >= 2) THEN Finish("ilog", n, b, Raise("ValueError"))
        ELSE Goto("ilog_double",
                  [routine |-> "ilog", n |-> n, b |-> b,
                   low |-> 0, b_low |-> 1, high |-> 1, b_high |-> b])

\* while b_high < n
ilog_double ==
    /\ pc = "ilog_double"
    /\ IF loc.b_high < loc.n
       THEN Goto("ilog_double",
                 [loc EXCEPT !.low = loc.high, !.b_low = loc.b_high,
                             !.high = loc.high * 2, !.b_high = loc.b_high * loc.b_high])
       ELSE Goto("ilog_search", loc)

\* ilog without the test b_high == n after the search
ilog_search_no_high ==
    /\ pc = "ilog_search"
    /\ IF loc.high - loc.low > 1
       THEN LET mid == (loc.low + loc.high) \div 2
                b_mid == loc.b_low * Pow(loc.b, mid - loc.low)
            IN  IF loc.n < b_mid
                THEN Goto("ilog_search", [loc EXCEPT !.high = mid, !.b_high = b_mid])
                ELSE IF b_mid < loc.n
                THEN Goto("ilog_search", [loc EXCEPT !.low = mid, !.b_low = b_mid])
                ELSE Finish("ilog", loc.n, loc.b, Value(mid))
       ELSE Finish("ilog", loc.n, loc.b, Value(loc.low))

\* while high - low > 1, and the two return statements after the loop
ilog_search ==
    /\ pc = "ilog_search"
    /\ IF loc.high - loc.low > 1
       THEN LET mid == (loc.low + loc.high) \div 2
                b_mid == loc.b_low * Pow(loc.b, mid - loc.low)
            IN  IF loc.n < b_mid
                THEN Goto("ilog_search", [loc EXCEPT !.high = mid, !.b_high = b_mid])
                ELSE IF b_mid < loc.n
                THEN Goto("ilog_search", [loc EXCEPT !.low = mid, !.b_low = b_mid])
                ELSE Finish("ilog", loc.n, loc.b, Value(mid))
       ELSE IF loc.b_high = loc.n
            THEN Finish("ilog", loc.n, loc.b, Value(loc.high))
            ELSE Finish("ilog", loc.n, loc.b, Value(loc.low))

Next ==
    \/ _target_jit_lookup
    \/ _target_jit_calculate
    \/ Do_add
    \/ Do_subtract
    \/ Do_multiply
    \/ Do_divide
    \/ Do_additive_inverse
    \/ Do_multiplicative_inverse
    \/ Do_multiple_add
    \/ Do_power
    \/ Do_log
    \/ Do_add_jit
    \/ Do_subtract_jit
    \/ Do_multiply_jit
    \/ Do_divide_jit
    \/ Do_negative_jit
    \/ Do_multiple_add_jit
    \/ Do_power_jit
    \/ Do_log_jit
    \/ Do_divide_python
    \/ Do_multiple_add_python
    \/ Do_poly_eval
    \/ Do_poly_eval_jit
    \/ Do_poly_eval_python
    \/ Discard
    \/ _power_python_enter
    \/ _power_python_loop
    \/ _power_python_return
    \/ _log_python_enter
    \/ _log_python_loop
    \/ isqrt_enter
    \/ isqrt_call
    \/ isqrt_return
    \/ iroot_enter
    \/ iroot_loop
    \/ ilog_enter
    \/ ilog_double
    \/ ilog_search

Spec == Init /\ [][Next]_vars


(***************************************************************************)
(* The pure python methods and the lookup power they are compared with, on *)
(* their own.  A method that has been entered runs on to its return.       *)
(***************************************************************************)
PythonNext ==
    \/ _target_jit_lookup
    \/ Do_power
    \/ Do_divide_python
    \/ Do_multiple_add_python
    \/ _power_python_enter
    \/ _power_python_loop
    \/ _power_python_return
    \/ _log_python_enter
    \/ _log_python_loop
    \/ Discard

PythonSteps == _power_python_loop \/ _power_python_return \/ _log_python_loop

PythonSpec == Init /\ [][PythonNext]_vars /\ WF_vars(PythonSteps)

(***************************************************************************)
(* integer.py on its own.  A routine that has been entered runs on to its  *)
(* return.                                                                 *)
(***************************************************************************)
IntegerNext ==
    \/ isqrt_enter
    \/ isqrt_call
    \/ isqrt_return
    \/ iroot_enter
    \/ iroot_loop
    \/ ilog_enter
    \/ ilog_double
    \/ ilog_search
    \/ Discard

IntegerSteps == isqrt_call \/ isqrt_return \/ iroot_loop \/ ilog_double \/ ilog_search

IntegerSpec == Init /\ [][IntegerNext]_vars /\ WF_vars(IntegerSteps)

(***************************************************************************)
(* Properties.                                                             *)
(***************************************************************************)
DivideOps == {"_divide", "_divide_jit", "_divide_python"}

\* C1 (as claimed): a division by the zero element fails in _divide, _divide_jit
\* and _divide_python, and never returns a field element.
C1_DivideByZeroFails ==
    (cur.op \in DivideOps /\ cur.b = 0) => cur.err # "none"

\* C1 (amended): _divide, _divide_jit and _divide_python do not fail on a zero
\* divisor; each returns the field element 0 for every dividend, zero included.
C1_DivideByZeroReturnsZero ==
    (cur.op \in DivideOps /\ cur.b = 0) => (cur.err = "none" /\ cur.ret = 0)

C1_Witness ==
    cur.op = "_divide" /\ cur.b = 0 /\ cur.a # 0 /\ LOG[0] # 0

LogOps == {"_log", "_log_jit", "_log_python"}

\* C2 (as claimed): the discrete logarithm of the zero element fails in _log,
\* _log_jit and _log_python, and never returns an integer.
C2_LogOfZeroFails ==
    (cur.op \in LogOps /\ cur.a = 0) => cur.err # "none"

\* C2 (amended): the discrete logarithm of the zero element does not fail inside
\* the routines: _log returns the table entry LOG[0], _log_jit returns 0 and
\* _log_python returns order - 2, the last value of its loop variable.
C2_LogOfZeroReturnsInteger ==
    (cur.op \in LogOps /\ cur.a = 0) =>
        /\ cur.err = "none"
        /\ cur.op = "_log" => cur.ret = LOG[0]
        /\ cur.op = "_log_jit" => cur.ret = 0
        /\ cur.op = "_log_python" => cur.ret = cls.order - 2

C2_Witness ==
    cur.op = "_log" /\ cur.a = 0 /\ cur.ret = cls.order - 1

PowerOps == {"_power", "_power_jit"}

\* C3 (as claimed): power(a, 0) is 1 for every a, power(0, e) is 0 for e > 0 and
\* power(0, e) fails for e < 0, in _power and _power_jit.
C3_PowerOfZeroFails ==
    cur.op \in PowerOps =>
        /\ cur.b = 0 => (cur.err = "none" /\ cur.ret = 1)
        /\ (cur.a = 0 /\ cur.b > 0) => (cur.err = "none" /\ cur.ret = 0)
        /\ (cur.a = 0 /\ cur.b < 0) => cur.err # "none"

\* C3 (amended): power(a, 0) is 1 for every a, and power(0, e) is 0 for every
\* e # 0, negative e included: _power and _power_jit do not fail on a zero base.
C3_PowerOfZeroReturnsZero ==
    cur.op \in PowerOps =>
        /\ cur.err = "none"
        /\ cur.b = 0 => cur.ret = 1
        /\ (cur.a = 0 /\ cur.b # 0) => cur.ret = 0

C3_Witness ==
    cur.op = "_power" /\ cur.a = 0 /\ cur.b < 0

\* the GF(2) kernel that stands for a lookup kernel in calculate mode, and back
Counterpart(op, a, b) ==
    CASE op = "_add"                -> _add_jit(a, b)
      [] op = "_subtract"           -> _subtract_jit(a, b)
      [] op = "_multiply"           -> _multiply_jit(a, b)
      [] op = "_divide"             -> _divide_jit(a, b)
      [] op = "_additive_inverse"   -> _negative_jit(a)
      [] op = "_multiple_add"       -> _multiple_add_jit(a, b)
      [] op = "_power"              -> _power_jit(a, b)
      [] op = "_log"                -> _log_jit(a)
      [] op = "_add_jit"            -> _add(a, b)
      [] op = "_subtract_jit"       -> _subtract(a, b)
      [] op = "_multiply_jit"       -> _multiply(a, b)
      [] op = "_divide_jit"         -> _divide(a, b)
      [] op = "_negative_jit"       -> _additive_inverse(a)
      [] op = "_multiple_add_jit"   -> _multiple_add(a, b)
      [] op = "_power_jit"          -> _power(a, b)
      [] op = "_log_jit"            -> _log(a)

\* the arguments an operation is defined on
Defined(op, a, b) ==
    /\ op \in {"_divide", "_divide_jit"} => b # 0
    /\ op \in {"_power", "_power_jit"} => ~(a = 0 /\ b < 0)
    /\ op \in {"_log", "_log_jit"} => a # 0

\* C4: over GF(2), with the tables of GF(2) exported and the GF(2) kernels
\* compiled, every lookup kernel returns what its GF(2) kernel returns and every
\* GF(2) kernel what its lookup kernel returns, on all arguments the operation
\* is defined on.
C4_GF2LookupEqualsCalculate ==
    ( /\ cls.order = 2
      /\ ORDER # None
      /\ GF2_CHARACTERISTIC # None
      /\ cur.op \in (LookupOps \ {"_multiplicative_inverse"}) \cup GF2Ops
      /\ Defined(cur.op, cur.a, cur.b) )
    => cur.ret = Counterpart(cur.op, cur.a, cur.b).ret

C4_Witness ==
    /\ cls.order = 2
    /\ GF2_CHARACTERISTIC # None
    /\ cur.op = "_subtract"
    /\ cur.a = 0
    /\ cur.b = 1
    /\ cur.ret = 1

\* C5: in the lookup backend, subtracting b from the sum of a and b gives a, for
\* all field elements a and b.
C5_SubtractUndoesAdd ==
    (cur.op = "_subtract" /\ prev.op = "_add" /\ cur.a = prev.ret /\ cur.b = prev.b)
    => cur.ret = prev.a

C5_Witness ==
    /\ cur.op = "_subtract"
    /\ prev.op = "_add"
    /\ cur.a = prev.ret
    /\ cur.b = prev.b
    /\ cls.characteristic # 2
    /\ cur.branch = "exp"
    /\ cur.zechIdx # prev.zechIdx

\* C6: the sum of a and its additive inverse is 0 for every field element a; in
\* the lookup backend the sum of a nonzero a and its inverse leaves _add by the
\* ZECH_E test, and in GF(2) a ^ a = 0.
C6_AddInverseIsZero ==
    /\ (cur.op = "_add" /\ prev.op = "_additive_inverse" /\ cur.a = prev.a /\ cur.b = prev.ret)
       => (cur.ret = 0 /\ (cur.a # 0 => cur.branch = "zech_e"))
    /\ (cur.op = "_add_jit" /\ prev.op = "_negative_jit" /\ cur.a = prev.a /\ cur.b = prev.ret)
       => cur.ret = 0

C6_Witness ==
    /\ cur.op = "_add"
    /\ prev.op = "_additive_inverse"
    /\ cur.a = prev.a
    /\ cur.b = prev.ret
    /\ cur.a # cur.b
    /\ cur.branch = "zech_e"


C7_Results ==
    /\ (cur.op = "_power_python" /\ cur.a # 0 /\ ORDER # None)
       => (cur.err = "none" /\ cur.ret = _power(cur.a, cur.b).ret)
    /\ (cur.op \in {"_power_python", "_power"} /\ cur.a # 0 /\ cur.b = cls.order - 1)
       => (cur.err = "none" /\ cur.ret = 1)

\* C7: _power_python(a, e), once entered, returns, and for every nonzero a and
\* every integer e it returns the element the lookup _power(a, e) returns; both
\* return 1 for e = order - 1.
C7_PowerPythonMatchesLookup ==
    /\ []C7_Results
    /\ (pc = "power_loop") ~> (pc = "idle" /\ cur.op = "_power_python")

C7_Witness ==
    /\ cur.op = "_power_python"
    /\ ORDER # None
    /\ cur.a > 1
    /\ cur.b < -(cls.order - 1)
    /\ cur.ret > 1
    /\ cls.degree > 1

C8_Results ==
    cur.op = "ilog" =>
        IF cur.a >= 1 /\ cur.b >= 2
        THEN /\ cur.err = "none"
             /\ cur.ret >= 0
             /\ Pow(cur.b, cur.ret) <= cur.a
             /\ cur.a < Pow(cur.b, cur.ret + 1)
        ELSE cur.err = "ValueError"

\* C8: ilog(n, b), once entered, returns: for n >= 1 and b >= 2 the k with
\* b^k <= n < b^(k+1), and a ValueError for n <= 0 or b < 2.
C8_IlogIsFloorLog ==
    /\ []C8_Results
    /\ (pc \in {"ilog_double", "ilog_search"}) ~> (pc = "idle" /\ cur.op = "ilog")

C8_Witness ==
    /\ cur.op = "ilog"
    /\ cur.err = "none"
    /\ cur.ret >= 3
    /\ cur.a = Pow(cur.b, cur.ret)
    /\ cur.b > 2

C9_Results ==
    cur.op = "iroot" =>
        IF cur.a >= 1 /\ cur.b >= 2
        THEN /\ cur.err = "none"
             /\ cur.ret >= 1
             /\ Pow(cur.ret, cur.b) <= cur.a
             /\ cur.a < Pow(cur.ret + 1, cur.b)
        ELSE cur.err = "ValueError"

\* C9: iroot(n, k), once entered, returns: for n >= 1 and k >= 2 the x with
\* x^k <= n < (x+1)^k, and a ValueError for n <= 0 or k < 2; while the loop
\* runs, x strictly decreases.
C9_IrootIsFloorRoot ==
    /\ []C9_Results
    /\ [][(pc = "iroot_loop" /\ pc' = "iroot_loop") => (loc'.x < loc.x /\ loc'.u >= 1)]_vars
    /\ (pc = "iroot_loop") ~> (pc = "idle" /\ cur.op = "iroot")

C9_Witness ==
    /\ cur.op = "iroot"
    /\ cur.err = "none"
    /\ cur.b >= 3
    /\ cur.ret >= 2
    /\ cur.a = Pow(cur.ret + 1, cur.b) - 1

C10_Results ==
    cur.op = "isqrt" =>
        IF cur.a >= 0
        THEN /\ cur.err = "none"
             /\ cur.ret >= 0
             /\ cur.ret * cur.ret <= cur.a
             /\ cur.a < (cur.ret + 1) * (cur.ret + 1)
             /\ cur.a = 0 => cur.ret = 0
             /\ cur.a = 1 => cur.ret = 1
             /\ cur.a = 728 => cur.ret = 26
             /\ cur.a \in {729, 730} => cur.ret = 27
        ELSE cur.err = "ValueError"

\* C10: isqrt(n), once entered, returns: for n >= 0 the x with x^2 <= n < (x+1)^2
\* (0 for 0, 1 for 1, 26 for 728, 27 for 729 and 730), and a ValueError for a
\* negative n; the recursion on n >> 2 ends.
C10_IsqrtIsFloorSqrt ==
    /\ []C10_Results
    /\ (pc \in {"isqrt_call", "isqrt_return"}) ~> (pc = "idle" /\ cur.op = "isqrt")

C10_Witness ==
    /\ cur.op = "isqrt"
    /\ cur.branch = "return"
    /\ cur.a = 728
    /\ cur.ret = 26

(***************************************************************************)
(* Polynomial evaluation.                                                  *)
(***************************************************************************)
RECURSIVE FieldPolySum(_, _, _, _)
\* the field sum of c[j] * x^(n-j) over the coefficients from j on, n = Len(c)
FieldPolySum(F, c, x, j) ==
    IF j > Len(c) THEN 0
    ELSE _add_python(F, _multiply_python(F, c[j], FieldPow(F, x, Len(c) - j)),
                     FieldPolySum(F, c, x, j + 1))

\* the value a polynomial evaluation owes for the point x
C11_Value(coeffs, x, r) ==
    /\ r = FieldPolySum(cls, coeffs, x, 1)
    /\ r = _poly_eval_python(cls, coeffs, x).ret
    /\ Len(coeffs) = 1 => r = coeffs[1]
    /\ (cls.order = 2 /\ coeffs = <<1, 0, 1>> /\ x = 1) => r = 0

\* C11: a polynomial evaluation of a non-empty coefficient sequence (most
\* significant first) returns, for every point x, the field sum of
\* c[j] * x^(n-1-j); one coefficient is returned unchanged; each element of
\* the result depends on its own x only; [1, 0, 1] over GF(2) at x = 1 gives 0;
\* _poly_eval, _poly_eval_jit and _poly_eval_python agree.
C11_PolyEvalIsHorner ==
    /\ cur.op \in {"_poly_eval", "_poly_eval_jit"} =>
        /\ cur.err = "none"
        /\ Len(cur.ret) = Len(cur.b)
        /\ \A i \in 1..Len(cur.b) :
            /\ C11_Value(cur.a, cur.b[i], cur.ret[i])
            /\ cur.op = "_poly_eval" =>
                   cur.ret[i] = _poly_eval(cur.a, <<cur.b[i]>>, <<0>>).ret[1]
            /\ cur.op = "_poly_eval_jit" =>
                   cur.ret[i] = _poly_eval_jit(cur.a, <<cur.b[i]>>, <<0>>).ret[1]
    /\ cur.op = "_poly_eval_python" =>
        /\ cur.err = "none"
        /\ C11_Value(cur.a, cur.b, cur.ret)

\* a lookup evaluation of a polynomial of three coefficients at two different
\* points with different values
C11_Witness ==
    /\ cur.op = "_poly_eval"
    /\ Len(cur.a) = 3
    /\ cur.a[1] # 0
    /\ Len(cur.b) = 2
    /\ cur.b[1] # cur.b[2]
    /\ cur.ret[1] # cur.ret[2]
    /\ cls.order = 4

(***************************************************************************)
(* Table indices.                                                          *)
(***************************************************************************)
\* the operands a lookup call indexes LOG with
LogOperands(c) ==
    IF c.op \in {"_add", "_subtract", "_multiply", "_divide"} THEN {c.a, c.b}
    ELSE IF c.op = "_multiple_add" THEN {c.a, c.b % CHARACTERISTIC}
    ELSE {c.a}

\* the return statements that give a constant or an operand back
ZeroBranches == {"a_zero", "b_zero", "zero", "one"}

\* C12 as stated: no lookup operation ever reads LOG at index 0.
C12_NeverReadsLogZero ==
    cur.op \in LookupOps => 0 \notin cur.logIdx

\* C12: every lookup operation reads LOG at its operands before it tests them
\* for zero, so LOG[0] is read exactly when an operand is 0 (b_int modulo the
\* characteristic for _multiple_add); the value read is then discarded: the
\* call returns by a zero test, indexes ZECH_LOG not at all and EXP only in
\* _subtract(0, b), at LOG[b] + ZECH_E.  _log alone returns LOG[0].
C12_LogZeroReadAndDiscarded ==
    cur.op \in LookupOps =>
        /\ cur.logIdx = LogOperands(cur)
        /\ (0 \in cur.logIdx) <=> (0 \in LogOperands(cur))
        /\ (0 \in cur.logIdx /\ cur.op # "_log") =>
            /\ cur.branch \in ZeroBranches
            /\ cur.zechIdx = {}
            /\ cur.expIdx = IF cur.op = "_subtract" /\ cur.b # 0
                            THEN {At(LOG, cur.b) + ZECH_E}
                            ELSE {}
        /\ (0 \in cur.logIdx /\ cur.op = "_log") => cur.ret = At(LOG, 0)

\* an addition with a zero first operand has read LOG[0] and returned b
C12_Witness ==
    /\ cur.op = "_add"
    /\ cur.a = 0
    /\ cur.b # 0
    /\ 0 \in cur.logIdx
    /\ cur.ret = cur.b

\* the lookup operations on two field elements
BinaryOps == {"_add", "_subtract", "_multiply", "_divide"}

\* C13: for nonzero operands every table index of a lookup operation is in
\* range: EXP indices lie in [0, 2*(order-1)), the ZECH_LOG indices of _add and
\* _subtract lie in [0, order-1) and are never ZECH_E, and no index is out of
\* LOG.
C13_IndicesInRange ==
    (/\ cur.op \in LookupOps \ {"_log"}
     /\ cur.a # 0
     /\ cur.op \in BinaryOps => cur.b # 0) =>
        /\ cur.expIdx \subseteq 0..(2 * (ORDER - 1) - 1)
        /\ cur.expIdx \subseteq DOMAIN EXP
        /\ cur.zechIdx \subseteq 0..(ORDER - 2)
        /\ cur.zechIdx \subseteq DOMAIN ZECH_LOG
        /\ ZECH_E \notin cur.zechIdx
        /\ cur.zechIdx # {} => cur.op \in {"_add", "_subtract"}
        /\ cur.logIdx \subseteq DOMAIN LOG
        /\ cur.ret \in 0..(ORDER - 1)

\* a subtraction of nonzero elements whose ZECH_LOG index was reduced by
\* order - 1
C13_Witness ==
    /\ cur.op = "_subtract"
    /\ cur.a # 0
    /\ cur.b # 0
    /\ Abs(At(LOG, cur.b) + ZECH_E - At(LOG, cur.a)) >= ORDER - 1
    /\ cur.zechIdx # {}
    /\ cur.expIdx # {}

(***************************************************************************)
(* Life cycle of the tables.                                               *)
(***************************************************************************)
\* the operations that compute in the field
ArithmeticOps == LookupOps \cup {"_poly_eval"}

\* the tables and parameters once the class is targeted
C14_Exported ==
    /\ builds <= 1
    /\ builds = 1 <=> cls_EXP # NoTable
    /\ ORDER # None =>
        /\ builds = 1
        /\ ZECH_E = IF cls.characteristic = 2 THEN 0 ELSE (cls.order - 1) \div 2
        /\ _add_python(cls, 1, EXP[ZECH_E]) = 0
        /\ EXP = cls_EXP
        /\ LOG = cls_LOG
        /\ ZECH_LOG = cls_ZECH_LOG
        /\ ORDER = cls.order
        /\ CHARACTERISTIC = cls.characteristic

\* a step that is an arithmetic operation: a first call, or a call on the
\* result of the call before
C14_Computes ==
    /\ cur'.op \in ArithmeticOps
    /\ cur.op = "none" \/ (prev.op = "none" /\ prev'.op # "none")

\* C14: the lookup tables are built once and read-only afterwards:
\* _build_lookup_tables runs on the first _target_jit_lookup only, later
\* calls leave cls._EXP, cls._LOG and cls._ZECH_LOG as they are, every call
\* sets ZECH_E to 0 in characteristic 2 and to (order-1)/2 otherwise, and no
\* arithmetic operation writes EXP, LOG, ZECH_LOG, ZECH_E, ORDER or
\* CHARACTERISTIC.
C14_TablesBuiltOnce ==
    /\ []C14_Exported
    /\ [][cls_EXP # NoTable => UNCHANGED <<cls_EXP, cls_LOG, cls_ZECH_LOG, builds>>]_vars
    /\ [][ORDER # None => UNCHANGED <<EXP, LOG, ZECH_LOG, ZECH_E, ORDER, CHARACTERISTIC>>]_vars
    /\ [][C14_Computes =>
              UNCHANGED <<classVars, EXP, LOG, ZECH_LOG, ZECH_E, ORDER, CHARACTERISTIC>>]_vars

\* the class of an odd field has been targeted and an addition has gone
\* through the tables
C14_Witness ==
    /\ builds = 1
    /\ cls.characteristic # 2
    /\ ZECH_E = (cls.order - 1) \div 2
    /\ cur.op = "_add"
    /\ cur.branch = "exp"
    /\ EXP = cls_EXP

====
